---- MODULE Spec2Model ----
(***************************************************************************)
(* Model of the birthday-cake application: the App component's candle      *)
(* state (isBlown / isBlowing / hasWished / wishes) with its one-shot      *)
(* setTimeout, and the per-frame callbacks (useFrame) of FlameParticles,   *)
(* BirthdayCake and SingleWish; and the HandGesture component: its setup   *)
(* and cleanup, and predictWebcam with the gesture classifier; and the    *)
(* ConfettiExplosion particle simulator.                                   *)
(*                                                                         *)
(* Time is in milliseconds.  Floating-point quantities are fixed-point     *)
(* integers: 1.0 is FP (10000).                                            *)
(*                                                                         *)
(* Specifications:                                                         *)
(*   Spec          the App handlers, the timer callback and the clock      *)
(*   SpecFlame     candle events and the FlameParticles frame callback     *)
(*   SpecWish      wish events and the SingleWish / BirthdayCake callbacks *)
(*   SpecScenario  one wish, one blow, then whole frames of ScnDt ms       *)
(*   SpecGesture   HandGesture: setup, camera, prediction loop, unmount    *)
(*   SpecSteady    HandGesture fed a hand that is held steady              *)
(*   SpecConfetti  ConfettiExplosion stepped at a steady frame rate        *)
(*   SpecStall     ConfettiExplosion with repeated, short, stalled frames  *)
(*   SpecEase      the flight easing function over a grid of arguments     *)
(*   SpecUI        the handlers called through the controls the page shows *)
(* In all but SpecUI the handlers are callable in every state: the         *)
(* conditional rendering of the Blow / Reset buttons and of the wish form  *)
(* is not part of them.                                                    *)
(***************************************************************************)
EXTENDS Integers, Sequences, FiniteSets, TLC

\* ------------------------------------------------------------------ bounds
MaxTicks == 3          \* clock ticks of the timer-level specification
TickMs == 500          \* length of one clock tick (ms)
MaxWishes == 2         \* wish ids ever handed out
MaxTextLen == 1        \* length of the text typed into the wish input
MaxTimers == 2         \* setTimeout callbacks pending at once
MaxFlameMs == 1500     \* horizon of the flame-intensity specification (ms)
MaxWishMs == 6000      \* horizon of the wish-projectile specification (ms)
MaxScnMs == 2000       \* horizon of the wish-then-blow scenario (ms)
ScnDt == 16            \* frame length of the wish-then-blow scenario (ms)
MaxVideoFrames == 2    \* camera frames delivered after the first one
WarmupFrames == 2      \* processed frames before the hand is held steady
MaxHoldFrames == 30    \* camera frames delivered to a steady hand
MaxSimMs == 10000      \* simulated confetti time at a steady rate (ms)
MaxStallSimMs == 3000  \* simulated confetti time with irregular frames (ms)
EaseGrid == 100        \* number of steps the interval [0, 1] of the easing argument is cut into
MaxOffBeat == 1        \* frames whose delta differs from the first frame's

\* ------------------------------------------------------- program constants
BlowDelayMs == 1000    \* setTimeout(..., 1000) in handleBlow
FP == 10000            \* fixed-point representation of 1.0
CoordFP == 1000        \* fixed-point representation of the landmark coordinate 1.0
closedRatio == 13000   \* const closedRatio = 1.3
openRatio == 22000     \* const openRatio = 2.2
deadzone == 1000       \* Math.abs(currentFactor.current) < 0.1
EaseFP == 1000         \* fixed-point representation of 1.0 in the easing function

FrameDts == {250, 500}           \* frame deltas (ms): a slow frame and a stalled frame

\* Deltas (ms) of displays refreshing at 125, 60, 30 and 10 Hz.
ConfettiRates == {8, 16, 33, 100}

\* Deltas (ms) of a frame repeated at once, a 60 Hz frame and a stalled tab.
StallDeltas == {0, 16, 3000}

Chars == {" ", "h"}

RECURSIVE SeqsUpTo(_)
SeqsUpTo(n) ==
  IF n = 0 THEN {<< >>}
  ELSE LET S == SeqsUpTo(n - 1)
       IN  S \cup {Append(s, c) : s \in {t \in S : Len(t) = n - 1}, c \in Chars}

Texts == SeqsUpTo(MaxTextLen)

\* The text typed in the frame-level specifications.
SampleTexts == {<< "h" >>}

VARIABLES
  isBlown,        \* App: useState(false)
  isBlowing,      \* App: useState(false)
  hasWished,      \* App: useState(false)
  wishes,         \* App: useState<Wish[]>([])  -- sequence of [id, text]
  inputValue,     \* App: useState("")
  wishIdCounter,  \* App: useRef(0)
  timers,         \* pending setTimeout callbacks of handleBlow: their due times, in scheduling order
  now,            \* wall clock (ms)
  blownUniform,   \* FlameParticles: blownUniform.current (fixed point)
  blowingUniform, \* FlameParticles: blowingUniform.current (fixed point)
  boostRef,       \* BirthdayCake: boostRef.current (fixed point)
  single,         \* mounted SingleWish components by wish id: progress, exploded, scale, finished
  impacts,        \* observation: number of onImpact calls made by each wish id ever created
  blowAt,         \* observation: << T >> = time of the last blow accepted in Idle/Wishing since the last reset
  resetMidBlow,   \* observation: a reset hit the Blowing state and no blow was issued since
  mounted,        \* HandGesture effect: let mounted = true
  setupPc,        \* HandGesture: position of setupMediaPipe
  cameraPc,       \* HandGesture: position of startCamera
  landmarkerRef,  \* HandGesture: landmarkerRef.current is set
  videoRef,       \* HandGesture: videoRef.current is the <video> element (null before mount / after unmount)
  stream,         \* the MediaStream handed out by getUserMedia: "none", "attached", "orphan" or "stopped"
  listening,      \* the loadeddata listener is registered on the <video> element and the event has not fired
  requestRef,     \* HandGesture: a requestAnimationFrame(predictWebcam) callback is pending
  lastVideoTime,  \* HandGesture: lastVideoTime.current
  videoTime,      \* video.currentTime, counted in camera frames
  currentFactor,  \* HandGesture: currentFactor.current (a float: number or NaN)
  lastCall,       \* observation: what the latest predictWebcam call did: signal before, target
  held,           \* observation: number of processed frames in a row that had the same target
  emitted,        \* observation: the values passed to onGestureChange, in order
  detections,     \* observation: number of detectForVideo calls
  late,           \* observation: what happened after the effect cleanup ran
  confetti,       \* ConfettiExplosion: positions, velocities, rotations, rotationSpeeds; << >> while not mounted
  simTime,        \* observation: sum of the clamped deltas of the confetti steps since the mount (ms)
  rate,           \* observation: << delta >> of the first confetti frame since the mount
  offBeat,        \* observation: number of confetti frames whose delta differed from rate
  easeT,          \* the argument t of the easing function (units of 1/EaseFP)
  easeOut         \* << ease(t) >> once the easing function has been applied

vars == << isBlown, isBlowing, hasWished, wishes, inputValue, wishIdCounter,
           timers, now, blownUniform, blowingUniform, boostRef, single, impacts,
           blowAt, resetMidBlow,
           mounted, setupPc, cameraPc, landmarkerRef, videoRef, stream, listening,
           requestRef, lastVideoTime, videoTime, currentFactor, lastCall, held,
                  emitted, detections, late,
           confetti, simTime, rate, offBeat, easeT, easeOut >>

confettiVars == << confetti, simTime, rate, offBeat >>

easeVars == << easeT, easeOut >>

gestureVars == << mounted, setupPc, cameraPc, landmarkerRef, videoRef, stream, listening,
                  requestRef, lastVideoTime, videoTime, currentFactor, lastCall, held,
                  emitted, detections, late >>

frameVars == << blownUniform, blowingUniform, boostRef, single, impacts >>

appVars == << isBlown, isBlowing, hasWished, wishes, inputValue, wishIdCounter, timers >>

\* ------------------------------------------------------------ candle state
\* The four lifecycle states of the specification, read off the App flags.
Idle    == ~isBlown /\ ~isBlowing /\ ~hasWished
Wishing == ~isBlown /\ ~isBlowing /\ hasWished
Blowing == isBlowing /\ ~isBlown
Blown   == isBlown

ConfettiMounted_WhileBlowing == isBlowing

\* BirthdayCake render: {isBlown && <ConfettiExplosion />}
ConfettiMounted == isBlown

\* String.prototype.trim on the input text: drop leading and trailing blanks.
RECURSIVE TrimLeft(_)
TrimLeft(s) == IF s # << >> /\ Head(s) = " " THEN TrimLeft(Tail(s)) ELSE s

RECURSIVE TrimRight(_)
TrimRight(s) ==
  IF s # << >> /\ s[Len(s)] = " " THEN TrimRight(SubSeq(s, 1, Len(s) - 1)) ELSE s

trim_Identity(s) == s

\* String.prototype.trim over the modelled alphabet.
trim(s) == TrimRight(TrimLeft(s))

TimerDue == timers # << >> /\ Head(timers) <= now

Min(a, b) == IF a <= b THEN a ELSE b

\* ------------------------------------------------------- per-frame helpers
\* THREE.MathUtils.lerp(x, y, t) = (1 - t) * x + t * y, with t given in
\* units of 1/FP; t is not clamped.
lerp(x, y, t) == ((FP - t) * x + t * y) \div FP

\* delta (ms) * rate, in units of 1/FP; the rate is passed as 10 * rate.
RateT(dt, rate10) == dt * rate10

NoWishes == [i \in {} |-> 0]

\* State of a freshly mounted SingleWish: progress = useRef(0),
\* exploded = useRef(false), finished = useState(false), group scale 1.
NewSingleWish == [progress |-> 0, exploded |-> FALSE, scale |-> FP, finished |-> FALSE]

\* WishParticles renders one SingleWish per wish, keyed by wish.id.
MountWish(s, id) ==
  [i \in DOMAIN s \cup {id} |-> IF i \in DOMAIN s THEN s[i] ELSE NewSingleWish]

\* The frame in which SingleWish takes the "Trigger Explosion" branch.
Impacting_LevelTriggered(w) == ~w.finished /\ w.progress >= FP

Impacting(w) == ~w.finished /\ w.progress >= FP /\ ~w.exploded

WishStep_FullSpeed(w, dt) ==
  IF w.finished THEN w
  ELSE IF w.progress < FP
    THEN [w EXCEPT !.progress = w.progress + dt * 10]
  ELSE IF Impacting(w)
    THEN [w EXCEPT !.exploded = TRUE]
  ELSE LET sc == (w.scale * 11) \div 10
       IN  [w EXCEPT !.scale = sc, !.finished = (sc > 5 * FP)]

WishStep_ExplodeOnArrival(w, dt) ==
  IF w.finished THEN w
  ELSE IF w.progress < FP
    THEN [w EXCEPT !.progress = w.progress + dt * 8,
                   !.exploded = (w.progress + dt * 8 >= FP)]
  ELSE IF Impacting(w)
    THEN [w EXCEPT !.exploded = TRUE]
  ELSE LET sc == (w.scale * 11) \div 10
       IN  [w EXCEPT !.scale = sc, !.finished = (sc > 5 * FP)]

WishStep_FasterDissolve(w, dt) ==
  IF w.finished THEN w
  ELSE IF w.progress < FP
    THEN [w EXCEPT !.progress = w.progress + dt * 8]
  ELSE IF Impacting(w)
    THEN [w EXCEPT !.exploded = TRUE]
  ELSE LET sc == (w.scale * 12) \div 10
       IN  [w EXCEPT !.scale = sc, !.finished = (sc > 5 * FP)]

WishStep_ClampStored(w, dt) ==
  IF w.finished THEN w
  ELSE IF w.progress < FP
    THEN [w EXCEPT !.progress = Min(w.progress + dt * 8, FP)]
  ELSE IF Impacting(w)
    THEN [w EXCEPT !.exploded = TRUE]
  ELSE LET sc == (w.scale * 11) \div 10
       IN  [w EXCEPT !.scale = sc, !.finished = (sc > 5 * FP)]

\* SingleWish useFrame callback for one frame of dt milliseconds.
WishStep(w, dt) ==
  IF w.finished THEN w
  ELSE IF w.progress < FP
    THEN [w EXCEPT !.progress = w.progress + dt * 8]
  ELSE IF Impacting(w)
    THEN [w EXCEPT !.exploded = TRUE]
  ELSE LET sc == (w.scale * 11) \div 10
       IN  [w EXCEPT !.scale = sc, !.finished = (sc > 5 * FP)]

\* handleWishImpact: boostRef.current = 2.5
BoostSpike == (5 * FP) \div 2

\* ------------------------------------------------------- gesture classifier
\* A JavaScript number of the classifier: a fixed-point value or NaN.
NaN == [nan |-> TRUE, v |-> 0]

Num(x) == [nan |-> FALSE, v |-> x]

Abs(x) == IF x < 0 THEN -x ELSE x

\* Math.sqrt on a non-negative integer, rounded down.
RECURSIVE SqrtIter(_, _, _)
SqrtIter(n, lo, hi) ==
  IF lo >= hi THEN lo
  ELSE LET mid == (lo + hi + 1) \div 2
       IN  IF mid * mid <= n THEN SqrtIter(n, mid, hi) ELSE SqrtIter(n, lo, mid - 1)

Sqrt(n) == SqrtIter(n, 0, Min(n, 46340))

\* A landmark: coordinates in units of 1/CoordFP; nan says that one of the
\* coordinates is NaN.
Point(x, y, z) == [x |-> x, y |-> y, z |-> z, nan |-> FALSE]

NaNPoint == [x |-> 0, y |-> 0, z |-> 0, nan |-> TRUE]

\* Math.sqrt(Math.pow(dx, 2) + Math.pow(dy, 2) + Math.pow(dz, 2)) in
\* coordinate units: NaN as soon as one coordinate is NaN.
Dist(p, q) ==
  IF p.nan \/ q.nan THEN NaN
  ELSE Num(Sqrt((p.x - q.x) * (p.x - q.x) + (p.y - q.y) * (p.y - q.y)
                + (p.z - q.z) * (p.z - q.z)))

\* landmarks[i] of the source is lm[i + 1].
Landmark(lm, i) == lm[i + 1]

tips == << 4, 8, 12, 16, 20 >>

\* Reading .x of a landmark the hand does not have throws a TypeError; the
\* highest index read is 20.
Throws(res) == res # << >> /\ Len(res[1]) < 21

scaleRef(lm) == Dist(Landmark(lm, 9), Landmark(lm, 0))

\* The sum and the quotient of two numbers; NaN if one of them is NaN.
AddF(a, b) == IF a.nan \/ b.nan THEN NaN ELSE Num(a.v + b.v)

\* a / b for a and b in the same unit, in units of 1/FP.
RatioF(a, b) == IF a.nan \/ b.nan THEN NaN ELSE Num((a.v * FP) \div b.v)

RECURSIVE totalTipDist(_, _)
totalTipDist(lm, k) ==
  IF k = 0 THEN Num(0)
  ELSE AddF(totalTipDist(lm, k - 1), Dist(Landmark(lm, tips[k]), Landmark(lm, 0)))

\* totalTipDist / 5
Fifth(total) == IF total.nan THEN NaN ELSE Num(total.v \div 5)

avgTipDist(lm) == Fifth(totalTipDist(lm, Len(tips)))

\* scaleRef || 1: a scaleRef of 0 or NaN is falsy and is replaced by 1.
OrOne(ref) == IF ref.nan \/ ref.v = 0 THEN Num(CoordFP) ELSE ref

\* avgTipDist / (scaleRef || 1), in units of 1/FP.
ratio(lm) == RatioF(avgTipDist(lm), OrOne(scaleRef(lm)))

Classify_Plateau(r) ==
  IF r.nan THEN NaN
  ELSE IF r.v < closedRatio THEN Num(-FP)
  ELSE IF r.v > closedRatio THEN Num(FP)
  ELSE Num(((r.v - closedRatio) * 2 * FP) \div (openRatio - closedRatio) - FP)

\* The three branches on the ratio.  With a NaN ratio both comparisons are
\* false and the interpolation yields NaN.
Classify(r) ==
  IF r.nan THEN NaN
  ELSE IF r.v < closedRatio THEN Num(-FP)
  ELSE IF r.v > openRatio THEN Num(FP)
  ELSE Num(((r.v - closedRatio) * 2 * FP) \div (openRatio - closedRatio) - FP)

\* The target the classifier computes from a detection result (a sequence of
\* hands, each a sequence of landmarks) that does not throw.
targetFactor(res) == IF res = << >> THEN Num(0) ELSE Classify(ratio(res[1]))

\* x * 0.15, rounded toward zero.
Times015(x) == IF x >= 0 THEN (x * 15) \div 100 ELSE -(((-x) * 15) \div 100)

\* currentFactor + (targetFactor - currentFactor) * 0.15
Smooth(cf, target) ==
  IF cf.nan \/ target.nan THEN NaN ELSE Num(cf.v + Times015(target.v - cf.v))

\* if (Math.abs(currentFactor) < 0.1) currentFactor = 0  (false for NaN)
Deadzone(cf) == IF ~cf.nan /\ Abs(cf.v) < deadzone THEN Num(0) ELSE cf

\* ---------------------------------------------------- detection results
\* Hands whose landmarks lie on one line through the wrist, d steps of length
\* 5 away from it: the wrist at index 0, the middle knuckle (index 9) and the
\* remaining joints k steps away, the five fingertips t[1..5] steps away.
Wrist == Point(200, 200, 0)

Along(d) == Point(200 + 3 * d, 200 + 4 * d, 0)

HandOf(k, t) ==
  [i \in 1..21 |->
     IF i = 1 THEN Wrist
     ELSE IF \E j \in 1..5 : tips[j] = i - 1
       THEN Along(t[CHOOSE j \in 1..5 : tips[j] = i - 1])
       ELSE Along(k)]

NoHand == << >>
Fist == << HandOf(20, << 20, 20, 20, 20, 20 >>) >>         \* ratio 1.0
AtClosed == << HandOf(20, << 26, 26, 26, 26, 26 >>) >>     \* ratio 1.3
HalfOpen == << HandOf(20, << 25, 30, 35, 40, 45 >>) >>     \* ratio 1.75
MostlyOpen == << HandOf(20, << 40, 40, 40, 40, 40 >>) >>   \* ratio 2.0
AtOpen == << HandOf(20, << 44, 44, 44, 44, 44 >>) >>       \* ratio 2.2
Open == << HandOf(20, << 50, 50, 50, 50, 50 >>) >>         \* ratio 2.5
ZeroScale == << HandOf(0, << 300, 300, 300, 300, 300 >>) >> \* scaleRef 0, tips 1.5 away

WellFormed == {NoHand, Fist, AtClosed, HalfOpen, MostlyOpen, AtOpen, Open, ZeroScale}

\* Malformed samples: a hand of five points, and hands with a NaN coordinate
\* in a fingertip, in the middle knuckle, in a joint the classifier never reads.
ShortHand == << SubSeq(Fist[1], 1, 5) >>
NaNTip == << [Open[1] EXCEPT ![9] = NaNPoint] >>
NaNKnuckle == << [Open[1] EXCEPT ![10] = NaNPoint] >>
NaNJoint == << [Open[1] EXCEPT ![2] = NaNPoint] >>

Malformed == {ShortHand, NaNTip, NaNKnuckle, NaNJoint}

Samples == WellFormed \cup Malformed

\* ---------------------------------------------------------- flight easing
ease_NoHalving(t) ==
  IF 2 * t < EaseFP
    THEN (4 * t * t * t) \div (EaseFP * EaseFP)
    ELSE EaseFP - ((2 * EaseFP - 2 * t) * (2 * EaseFP - 2 * t) * (2 * EaseFP - 2 * t))
                    \div (EaseFP * EaseFP)

\* const ease = t < 0.5 ? 4 * t * t * t : 1 - Math.pow(-2 * t + 2, 3) / 2
ease(t) ==
  IF 2 * t < EaseFP
    THEN (4 * t * t * t) \div (EaseFP * EaseFP)
    ELSE EaseFP - ((2 * EaseFP - 2 * t) * (2 * EaseFP - 2 * t) * (2 * EaseFP - 2 * t))
                    \div (2 * EaseFP * EaseFP)

\* const t = Math.min(progress.current, 1): the values of t on a grid of
\* EaseGrid steps from 0 to 1.
EaseInputs == {(k * EaseFP) \div EaseGrid : k \in 0..EaseGrid}

\* ------------------------------------------------------ confetti simulator
\* x * num / den, rounded toward zero.
MulDiv(x, num, den) ==
  IF x >= 0 THEN (x * num) \div den ELSE -(((-x) * num) \div den)

ClampDt_Unclamped(delta) == delta

\* const dt = Math.min(delta, 0.1)   (ms)
ClampDt(delta) == Min(delta, 100)

\* A particle: position, velocity, rotation (units of 1/FP) and rotation
\* speed (units of 1/FP per second), three coordinates each.
Particle(pos, vel, rot, rotSpeed) ==
  [pos |-> pos, vel |-> vel, rot |-> rot, rotSpeed |-> rotSpeed]

\* Draws of the initializer: positions within 0.25 of (0, 2, 0); velocities
\* speed * (sin phi cos theta * 1.5, sin phi sin theta, cos phi * 1.5) with
\* speed in [4, 12), plus an upward 5..10 and, for some, 5..10 toward the
\* camera; rotations in [0, pi), rotation speeds within 5.
\*   1  straight up at full speed with the largest upward bias
\*   2  straight down at full speed with the smallest upward bias
\*   3  sideways
\*   4  toward the camera
Profiles ==
  << Particle(<< 2500, 22500, -2500 >>, << 0, 218000, 0 >>,
              << 0, 0, 0 >>, << 49000, -49000, 0 >>),
     Particle(<< -2500, 17500, 2500 >>, << 0, -69000, 99000 >>,
              << 31000, 15000, 0 >>, << -49000, 0, 49000 >>),
     Particle(<< 0, 20000, 0 >>, << 120000, 75000, 0 >>,
              << 10000, 20000, 30000 >>, << 10000, 20000, -30000 >>),
     Particle(<< 1000, 21000, -1000 >>, << 0, 50000, 110000 >>,
              << 0, 31000, 0 >>, << 0, 0, 0 >>) >>

\* const count = 4000: the length of the arrays and of the instanced mesh.
count == 4000

\* Slot i of the pool carries the draw Profiles[ProfileOf(i)].
ProfileOf(i) == (i % Len(Profiles)) + 1

\* The useMemo initializer of a freshly mounted ConfettiExplosion.
ConfettiMount ==
  /\ confetti' = Profiles
  /\ simTime' = 0
  /\ rate' = << >>
  /\ offBeat' = 0

\* ConfettiExplosion is no longer rendered.
ConfettiUnmount ==
  /\ confetti' = << >>
  /\ simTime' = 0
  /\ rate' = << >>
  /\ offBeat' = 0

Velocity_StrongerDrag(p, dt) ==
  << MulDiv(p.vel[1], 90, 100),
     MulDiv(p.vel[2] - 150 * dt, 90, 100),
     MulDiv(p.vel[3], 90, 100) >>

Velocity_NoDrag(p, dt) == << p.vel[1], p.vel[2] - 150 * dt, p.vel[3] >>

\* velocities[idx + 1] -= 15.0 * dt, then all three *= 0.96
Velocity(p, dt) ==
  << MulDiv(p.vel[1], 96, 100),
     MulDiv(p.vel[2] - 150 * dt, 96, 100),
     MulDiv(p.vel[3], 96, 100) >>

StepParticle_Respawn(p, dt) ==
  IF p.pos[2] < -20 * FP
    THEN [p EXCEPT !.pos = << 0, 2 * FP, 0 >>]
    ELSE [pos |-> [c \in 1..3 |-> p.pos[c] + MulDiv(Velocity(p, dt)[c], dt, 1000)],
          vel |-> Velocity(p, dt),
          rot |-> [c \in 1..3 |-> p.rot[c] + MulDiv(p.rotSpeed[c], dt, 1000)],
          rotSpeed |-> p.rotSpeed]

\* One pass of the loop body for one particle, dt in ms.
StepParticle(p, dt) ==
  [pos |-> [c \in 1..3 |-> p.pos[c] + MulDiv(Velocity(p, dt)[c], dt, 1000)],
   vel |-> Velocity(p, dt),
   rot |-> [c \in 1..3 |-> p.rot[c] + MulDiv(p.rotSpeed[c], dt, 1000)],
   rotSpeed |-> p.rotSpeed]

InstanceScale_NeverCulled(p) == 1

\* let s = 1.0; if (positions[idx + 1] < -20) s = 0.0
InstanceScale(p) == IF p.pos[2] < -20 * FP THEN 0 ELSE 1

\* The slots of the arrays and of the instanced mesh.
Slots == 0..(count - 1)

\* The particle held in slot i of the mounted simulator.
Slot(i) == confetti[ProfileOf(i)]

\* ConfettiExplosion useFrame callback for a frame of delta milliseconds.
ConfettiStep(delta) ==
  IF confetti = << >>
    THEN UNCHANGED confettiVars
    ELSE /\ confetti' = [k \in DOMAIN confetti |-> StepParticle(confetti[k], ClampDt(delta))]
         /\ simTime' = simTime + ClampDt(delta)
         /\ rate' = IF rate = << >> THEN << delta >> ELSE rate
         /\ offBeat' = IF rate # << >> /\ delta # rate[1] THEN offBeat + 1 ELSE offBeat

\* ---------------------------------------------------------------- handlers
\* <input onChange={(e) => setInputValue(e.target.value)} />
setInputValue(t) ==
  /\ inputValue' = t
  /\ UNCHANGED << isBlown, isBlowing, hasWished, wishes, wishIdCounter, timers,
                  now, frameVars, blowAt, resetMidBlow, gestureVars, confettiVars, easeVars >>

handleSendWish_ReuseId ==
  /\ IF trim(inputValue) = << >>
       THEN UNCHANGED << wishes, inputValue, hasWished, wishIdCounter, single, impacts >>
       ELSE /\ wishes' = Append(wishes, [id |-> Len(wishes), text |-> inputValue])
            /\ wishIdCounter' = wishIdCounter + 1
            /\ inputValue' = << >>
            /\ hasWished' = TRUE
            /\ single' = MountWish(single, Len(wishes))
            /\ impacts' = [i \in DOMAIN impacts \cup {Len(wishes)} |->
                             IF i \in DOMAIN impacts THEN impacts[i] ELSE 0]
  /\ UNCHANGED << isBlown, isBlowing, timers, now, blownUniform, blowingUniform,
                  boostRef, blowAt, resetMidBlow, gestureVars, confettiVars, easeVars >>

handleSendWish_ReplaceWishes ==
  /\ IF trim(inputValue) = << >>
       THEN UNCHANGED << wishes, inputValue, hasWished, wishIdCounter, single, impacts >>
       ELSE /\ wishes' = << [id |-> wishIdCounter, text |-> inputValue] >>
            /\ wishIdCounter' = wishIdCounter + 1
            /\ inputValue' = << >>
            /\ hasWished' = TRUE
            /\ single' = MountWish(NoWishes, wishIdCounter)
            /\ impacts' = [i \in DOMAIN impacts \cup {wishIdCounter} |->
                             IF i \in DOMAIN impacts THEN impacts[i] ELSE 0]
  /\ UNCHANGED << isBlown, isBlowing, timers, now, blownUniform, blowingUniform,
                  boostRef, blowAt, resetMidBlow, gestureVars, confettiVars, easeVars >>

\* handleSendWish: rejects blank text, otherwise appends a wish with a fresh id.
handleSendWish ==
  /\ IF trim(inputValue) = << >>
       THEN UNCHANGED << wishes, inputValue, hasWished, wishIdCounter, single, impacts >>
       ELSE /\ wishes' = Append(wishes, [id |-> wishIdCounter, text |-> inputValue])
            /\ wishIdCounter' = wishIdCounter + 1
            /\ inputValue' = << >>
            /\ hasWished' = TRUE
            /\ single' = MountWish(single, wishIdCounter)
            /\ impacts' = [i \in DOMAIN impacts \cup {wishIdCounter} |->
                             IF i \in DOMAIN impacts THEN impacts[i] ELSE 0]
  /\ UNCHANGED << isBlown, isBlowing, timers, now, blownUniform, blowingUniform,
                  boostRef, blowAt, resetMidBlow, gestureVars, confettiVars, easeVars >>

\* handleBlow: no guard on the current state; always schedules a timer.
handleBlow ==
  /\ isBlowing' = TRUE
  /\ timers' = Append(timers, now + BlowDelayMs)
  /\ blowAt' = IF ~isBlowing /\ ~isBlown THEN << now >> ELSE blowAt
  /\ resetMidBlow' = FALSE
  /\ UNCHANGED << isBlown, hasWished, wishes, inputValue, wishIdCounter, now, frameVars,
                  gestureVars, confettiVars, easeVars >>

\* The callback handed to setTimeout in handleBlow.
TimerFire ==
  /\ TimerDue
  /\ timers' = Tail(timers)
  /\ isBlown' = TRUE
  /\ IF isBlown THEN UNCHANGED confettiVars ELSE ConfettiMount
  /\ UNCHANGED << isBlowing, hasWished, wishes, inputValue, wishIdCounter,
                  now, frameVars, blowAt, resetMidBlow, gestureVars, easeVars >>

handleReset_KeepProjectiles ==
  /\ isBlown' = FALSE
  /\ isBlowing' = FALSE
  /\ hasWished' = FALSE
  /\ wishes' = << >>
  /\ blowAt' = << >>
  /\ resetMidBlow' = Blowing
  /\ UNCHANGED << inputValue, wishIdCounter, timers, now, frameVars, gestureVars, easeVars >>
  /\ ConfettiUnmount

handleReset_KeepWishes ==
  /\ isBlown' = FALSE
  /\ isBlowing' = FALSE
  /\ hasWished' = FALSE
  /\ blowAt' = << >>
  /\ resetMidBlow' = Blowing
  /\ ConfettiUnmount
  /\ UNCHANGED << wishes, inputValue, wishIdCounter, timers, now, frameVars, gestureVars,
                  easeVars >>

\* handleReset: clears the flags and the wishes; the pending timers are not touched.
handleReset ==
  /\ isBlown' = FALSE
  /\ isBlowing' = FALSE
  /\ hasWished' = FALSE
  /\ wishes' = << >>
  /\ single' = NoWishes
  /\ blowAt' = << >>
  /\ resetMidBlow' = Blowing
  /\ UNCHANGED << inputValue, wishIdCounter, timers, now, blownUniform, blowingUniform,
                  boostRef, impacts, gestureVars, easeVars >>
  /\ ConfettiUnmount

\* The clock advances; a due timer callback runs before time moves on, and
\* the clock never jumps over a pending timer's due time.
Tick ==
  /\ ~TimerDue
  /\ now < MaxTicks * TickMs
  /\ now' = IF timers = << >> THEN now + TickMs ELSE Min(now + TickMs, Head(timers))
  /\ UNCHANGED << appVars, frameVars, blowAt, resetMidBlow, gestureVars, confettiVars, easeVars >>

\* HandGesture right after mount: the refs hold their initial values, the
\* <video> element is attached to videoRef and the effect has called
\* setupMediaPipe, which awaits FilesetResolver.forVisionTasks.
GestureInit ==
  /\ mounted = TRUE
  /\ setupPc = "forVisionTasks"
  /\ cameraPc = "idle"
  /\ landmarkerRef = FALSE
  /\ videoRef = TRUE
  /\ stream = "none"
  /\ listening = FALSE
  /\ requestRef = FALSE
  /\ lastVideoTime = -1
  /\ videoTime = 0
  /\ currentFactor = Num(0)
  /\ lastCall = [did |-> "none", before |-> Num(0), target |-> Num(0), res |-> NoHand]
  /\ held = [target |-> Num(0), n |-> 0]
  /\ emitted = << >>
  /\ detections = 0
  /\ late = << >>

\* The page right after the first render.
InitCake ==
  /\ isBlown = FALSE
  /\ isBlowing = FALSE
  /\ hasWished = FALSE
  /\ wishes = << >>
  /\ inputValue = << >>
  /\ wishIdCounter = 0
  /\ timers = << >>
  /\ now = 0
  /\ blownUniform = 0
  /\ blowingUniform = 0
  /\ boostRef = 0
  /\ single = NoWishes
  /\ impacts = NoWishes
  /\ blowAt = << >>
  /\ resetMidBlow = FALSE
  /\ GestureInit
  /\ confetti = << >>
  /\ simTime = 0
  /\ rate = << >>
  /\ offBeat = 0

Init ==
  /\ InitCake
  /\ easeT = 0
  /\ easeOut = << >>

TypeInput == \E t \in Texts : setInputValue(t)

TypeSample == \E t \in SampleTexts : setInputValue(t)

\* The form is submitted (at most MaxWishes ids are handed out).
SendWish == wishIdCounter < MaxWishes /\ handleSendWish

\* The blow event arrives (at most MaxTimers callbacks are pending).
Blow == Len(timers) < MaxTimers /\ handleBlow

Next ==
  \/ TypeInput
  \/ SendWish
  \/ Blow
  \/ handleReset
  \/ TimerFire
  \/ Tick

Spec == Init /\ [][Next]_vars

\* FlameParticles useFrame callback: both uniforms move toward their targets.
FlameParticlesFrame(dt) ==
  /\ blownUniform' = lerp(blownUniform, IF isBlown THEN FP ELSE 0, RateT(dt, 30))
  /\ blowingUniform' = lerp(blowingUniform, IF isBlowing THEN FP ELSE 0, RateT(dt, 40))

\* BirthdayCake useFrame callback (boost decay) and the SingleWish useFrame
\* callbacks of all mounted wishes.  cakeFirst is the order of the BirthdayCake
\* callback relative to the SingleWish callbacks in the frame loop's
\* subscriber list: an impact either survives the frame as 2.5 or is decayed
\* once in the same frame.
WishAndCakeFrame(dt, cakeFirst) ==
  /\ LET hit == \E i \in DOMAIN single : Impacting(single[i])
     IN  boostRef' = IF hit /\ cakeFirst THEN BoostSpike
                     ELSE lerp(IF hit THEN BoostSpike ELSE boostRef, 0, RateT(dt, 25))
  /\ single' = [i \in DOMAIN single |-> WishStep(single[i], dt)]
  /\ impacts' = [i \in DOMAIN impacts |->
                   IF i \in DOMAIN single /\ Impacting(single[i])
                     THEN impacts[i] + 1 ELSE impacts[i]]

\* A frame is rendered dt milliseconds after the previous one; a due timer
\* callback runs before the next frame.
FrameClock(dt, horizon) ==
  /\ ~TimerDue
  /\ now + dt <= horizon
  /\ now' = now + dt
  /\ UNCHANGED << appVars, blowAt, resetMidBlow, gestureVars, easeVars >>

\* One rendered frame: every useFrame callback runs once with the same delta.
Frame(dt, cakeFirst, horizon) ==
  /\ FrameClock(dt, horizon)
  /\ FlameParticlesFrame(dt)
  /\ WishAndCakeFrame(dt, cakeFirst)
  /\ ConfettiStep(dt)

\* ------------------------------------------- flame intensities, frame level
\* The callbacks of the frame loop share no state; this specification follows
\* the FlameParticles callback under every order of candle events.
FlameFrame ==
  \E dt \in FrameDts :
    /\ FrameClock(dt, MaxFlameMs)
    /\ FlameParticlesFrame(dt)
    /\ UNCHANGED << boostRef, single, impacts, confettiVars >>

NextFlame ==
  \/ Blow
  \/ handleReset
  \/ TimerFire
  \/ FlameFrame

SpecFlame == Init /\ [][NextFlame]_vars

\* ------------------------------------------------ wishes and boost, frame level
\* This specification follows the SingleWish and BirthdayCake callbacks under
\* every order of wish submissions and resets; blow and its timer touch none of
\* the state these callbacks read or write.
WishFrame ==
  \E dt \in FrameDts, cakeFirst \in BOOLEAN :
    /\ FrameClock(dt, MaxWishMs)
    /\ WishAndCakeFrame(dt, cakeFirst)
    /\ UNCHANGED << blownUniform, blowingUniform, confettiVars >>

NextWish ==
  \/ TypeSample
  \/ SendWish
  \/ handleReset
  \/ WishFrame

SpecWish == Init /\ [][NextWish]_vars

\* --------------------------------------------------- wish-then-blow scenario
\* A wish is typed and submitted, blow is called at once, and frames of ScnDt
\* milliseconds follow; the timer callback runs when it is due.
ScnType == wishIdCounter = 0 /\ inputValue = << >> /\ setInputValue(<< "h" >>)

ScnSend == wishIdCounter = 0 /\ inputValue # << >> /\ handleSendWish

ScnBlow == wishIdCounter = 1 /\ ~isBlowing /\ handleBlow

ScnFrame == isBlowing /\ \E cakeFirst \in BOOLEAN : Frame(ScnDt, cakeFirst, MaxScnMs)

NextScenario ==
  \/ ScnType
  \/ ScnSend
  \/ ScnBlow
  \/ TimerFire
  \/ ScnFrame

SpecScenario == Init /\ [][NextScenario]_vars

\* ------------------------------------------------- the page as it is rendered
\* {!hasWished && ( ... <form onSubmit={handleSendWish}> ... )}
WishFormShown == ~hasWished

BlowShown_Always == TRUE

\* {hasWished && !isBlown && !isBlowing && ( ... <button onClick={handleBlow}> ... )}
BlowShown == hasWished /\ ~isBlown /\ ~isBlowing

\* {isBlown && ( ... <button onClick={handleReset}> ... )}
ResetShown == isBlown

\* The user types into the input of the wish form.
UIType == WishFormShown /\ TypeInput

\* The user submits the wish form.
UISend == WishFormShown /\ SendWish

\* The user clicks Blow.
UIBlow == BlowShown /\ Blow

\* The user clicks Reset.
UIReset == ResetShown /\ handleReset

NextUI ==
  \/ UIType
  \/ UISend
  \/ UIBlow
  \/ UIReset
  \/ TimerFire
  \/ Tick
  \/ FlameFrame

SpecUI == Init /\ [][NextUI]_vars

\* ------------------------------------------------------ easing specification
InitEase ==
  /\ InitCake
  /\ easeT \in EaseInputs
  /\ easeOut = << >>

\* The flight branch of a frame computes ease from t.
ApplyEase ==
  /\ easeOut = << >>
  /\ easeOut' = << ease(easeT) >>
  /\ UNCHANGED << appVars, now, frameVars, blowAt, resetMidBlow, gestureVars, confettiVars,
                  easeT >>

NextEase == ApplyEase

SpecEase == InitEase /\ [][NextEase]_vars

\* ---------------------------------------------------- confetti specifications
\* Blow on the idle candle as soon as the page is up.
ConfettiBlow == now = 0 /\ ~isBlowing /\ ~isBlown /\ timers = << >> /\ handleBlow

\* Time passes until the timeout is due.
ConfettiTick == timers # << >> /\ Tick

\* One rendered frame while the confetti is mounted.  The first frame after
\* the mount takes its delta from rates; a later frame repeats it, or takes a
\* delta from deltas while fewer than maxOff frames have done so.
ConfettiFrame(rates, deltas, maxOff, maxSim) ==
  \E delta \in rates \cup deltas :
    /\ confetti # << >>
    /\ IF rate = << >>
         THEN delta \in rates
         ELSE delta = rate[1] \/ (delta \in deltas /\ offBeat < maxOff)
    /\ simTime < maxSim
    /\ FrameClock(delta, now + delta)
    /\ ConfettiStep(delta)
    /\ UNCHANGED frameVars

\* Frames at a steady rate.
SteadyConfettiFrame == ConfettiFrame(ConfettiRates, {}, 0, MaxSimMs)

NextConfetti ==
  \/ ConfettiBlow
  \/ ConfettiTick
  \/ TimerFire
  \/ handleReset
  \/ SteadyConfettiFrame

SpecConfetti == Init /\ [][NextConfetti]_vars

\* Frames at 10 Hz, some of them repeated at once, shorter or stalled.
StallConfettiFrame == ConfettiFrame({100}, StallDeltas, MaxOffBeat, MaxStallSimMs)

NextStall ==
  \/ ConfettiBlow
  \/ ConfettiTick
  \/ TimerFire
  \/ handleReset
  \/ StallConfettiFrame

SpecStall == Init /\ [][NextStall]_vars

\* ------------------------------------------------------ gesture component
cakeVars == << appVars, now, frameVars, blowAt, resetMidBlow, confettiVars, easeVars >>

NewFrame_Always == TRUE

\* video.currentTime !== lastVideoTime.current
NewFrame == videoTime # lastVideoTime

\* One call of predictWebcam; res is what landmarker.detectForVideo returns
\* if it is called.  An exception thrown while the landmarks are read leaves
\* the function before the smoothing and before requestAnimationFrame.
predictWebcam(res) ==
  /\ IF videoRef /\ landmarkerRef /\ NewFrame
       THEN /\ lastVideoTime' = videoTime
            /\ detections' = detections + 1
            /\ IF Throws(res)
                 THEN /\ UNCHANGED << currentFactor, emitted >>
                      /\ held' = [held EXCEPT !.n = 0]
                      /\ requestRef' = FALSE
                      /\ lastCall' = [did |-> "threw", before |-> currentFactor,
                                      target |-> NaN, res |-> res]
                 ELSE /\ lastCall' = [did |-> "processed", before |-> currentFactor,
                                      target |-> targetFactor(res), res |-> res]
                      /\ currentFactor' = Deadzone(Smooth(currentFactor, lastCall'.target))
                      /\ emitted' = Append(emitted, currentFactor')
                      /\ held' = [target |-> lastCall'.target,
                                  n |-> IF held.n > 0 /\ held.target = lastCall'.target
                                          THEN held.n + 1 ELSE 1]
                      /\ requestRef' = TRUE
       ELSE /\ UNCHANGED << lastVideoTime, detections, currentFactor, emitted, held >>
            /\ requestRef' = TRUE
            /\ lastCall' = [did |-> IF videoRef /\ landmarkerRef THEN "skipped" ELSE "idle",
                            before |-> currentFactor, target |-> NaN, res |-> NoHand]
  /\ UNCHANGED << mounted, setupPc, cameraPc, landmarkerRef, videoRef, stream, videoTime,
                  late, cakeVars >>

\* setupMediaPipe resumes after FilesetResolver.forVisionTasks resolved.
VisionResolved ==
  /\ setupPc = "forVisionTasks"
  /\ setupPc' = IF mounted THEN "createFromOptions" ELSE "returned"
  /\ UNCHANGED << mounted, cameraPc, landmarkerRef, videoRef, stream, listening, requestRef,
                  lastVideoTime, videoTime, currentFactor, lastCall, held, emitted,
                  detections, late, cakeVars >>

\* setupMediaPipe resumes after HandLandmarker.createFromOptions resolved; it
\* stores the landmarker and calls startCamera, which awaits getUserMedia.
LandmarkerCreated ==
  /\ setupPc = "createFromOptions"
  /\ IF mounted
       THEN setupPc' = "done" /\ landmarkerRef' = TRUE /\ cameraPc' = "getUserMedia"
       ELSE setupPc' = "returned" /\ UNCHANGED << landmarkerRef, cameraPc >>
  /\ UNCHANGED << mounted, videoRef, stream, listening, requestRef, lastVideoTime, videoTime,
                  currentFactor, lastCall, held, emitted, detections, late, cakeVars >>

\* One of the two awaited promises of setupMediaPipe rejects: the catch block
\* reports "Vision Init Failed".
SetupRejected ==
  /\ setupPc \in {"forVisionTasks", "createFromOptions"}
  /\ setupPc' = "failed"
  /\ UNCHANGED << mounted, cameraPc, landmarkerRef, videoRef, stream, listening, requestRef,
                  lastVideoTime, videoTime, currentFactor, lastCall, held, emitted,
                  detections, late, cakeVars >>

\* startCamera resumes after getUserMedia resolved with a live stream; the
\* stream is attached and the listener registered only if videoRef.current is set.
CameraGranted ==
  /\ cameraPc = "getUserMedia"
  /\ cameraPc' = "done"
  /\ IF videoRef
       THEN stream' = "attached" /\ listening' = TRUE
       ELSE stream' = "orphan" /\ UNCHANGED listening
  /\ UNCHANGED << mounted, setupPc, landmarkerRef, videoRef, requestRef, lastVideoTime,
                  videoTime, currentFactor, lastCall, held, emitted, detections, late,
                  cakeVars >>

\* getUserMedia rejects: the catch block reports "No Cam Access".
CameraDenied ==
  /\ cameraPc = "getUserMedia"
  /\ cameraPc' = "failed"
  /\ UNCHANGED << mounted, setupPc, landmarkerRef, videoRef, stream, listening, requestRef,
                  lastVideoTime, videoTime, currentFactor, lastCall, held, emitted,
                  detections, late, cakeVars >>

\* The <video> element has loaded the first frame of its live stream and
\* dispatches loadeddata to the registered listener, predictWebcam.
LoadedData(res) ==
  /\ listening
  /\ stream = "attached"
  /\ listening' = FALSE
  /\ predictWebcam(res)

\* The browser runs the pending requestAnimationFrame callback.
AnimationFrame(res) ==
  /\ requestRef
  /\ UNCHANGED listening
  /\ predictWebcam(res)

\* The playing stream delivers the next camera frame: video.currentTime moves on.
CameraFrame(max) ==
  /\ stream = "attached"
  /\ ~listening
  /\ videoTime < max
  /\ videoTime' = videoTime + 1
  /\ UNCHANGED << mounted, setupPc, cameraPc, landmarkerRef, videoRef, stream, listening,
                  requestRef, lastVideoTime, currentFactor, lastCall, held, emitted,
                  detections, late, cakeVars >>

\* The component unmounts: React detaches videoRef and runs the effect
\* cleanup.  refSeen says whether the cleanup still reads the <video> element
\* from videoRef.current (it does when the cleanup runs before the ref is
\* detached); only then are the tracks of an attached stream stopped.
Cleanup(refSeen) ==
  /\ mounted
  /\ mounted' = FALSE
  /\ videoRef' = FALSE
  /\ stream' = IF refSeen /\ videoRef /\ stream = "attached" THEN "stopped" ELSE stream
  /\ requestRef' = FALSE
  /\ late' = << detections, Len(emitted) >>
  /\ UNCHANGED << setupPc, cameraPc, landmarkerRef, listening, lastVideoTime, videoTime,
                  currentFactor, lastCall, held, emitted, detections, cakeVars >>

GestureLoaded == \E res \in Samples : LoadedData(res)

GestureFrame == \E res \in Samples : AnimationFrame(res)

GestureCamera == CameraFrame(MaxVideoFrames)

Unmount == \E refSeen \in BOOLEAN : Cleanup(refSeen)

NextGesture ==
  \/ VisionResolved
  \/ LandmarkerCreated
  \/ SetupRejected
  \/ CameraGranted
  \/ CameraDenied
  \/ GestureLoaded
  \/ GestureFrame
  \/ GestureCamera
  \/ Unmount

SpecGesture == Init /\ [][NextGesture]_vars

\* --------------------------------------------------------- a steady hand
\* The component starts up without failure; the first WarmupFrames processed
\* frames carry any well-formed sample, every later one repeats the target of
\* the frame before it.
SteadySample(res) == detections < WarmupFrames \/ lastCall'.target = held.target

\* The next camera frame arrives after the previous one was processed.
SteadyCamera == videoTime = lastVideoTime /\ CameraFrame(MaxHoldFrames)

SteadyLoaded == \E res \in WellFormed : LoadedData(res)

SteadyFrame == \E res \in WellFormed : AnimationFrame(res) /\ SteadySample(res)

NextSteady ==
  \/ VisionResolved
  \/ LandmarkerCreated
  \/ CameraGranted
  \/ SteadyLoaded
  \/ SteadyFrame
  \/ SteadyCamera

SpecSteady == Init /\ [][NextSteady]_vars

\* ======================================================= candle state claims
\* C1 (as claimed): after a blow accepted at time T in Idle or Wishing, with no
\* reset since, the state is Blowing at every moment before T + 1.0 s and
\* Blown from T + 1.0 s on (once the due timer callback has run).
C1_BlowingThenBlownAfterOneSecond ==
  blowAt # << >> =>
    /\ (now < blowAt[1] + BlowDelayMs) => (isBlowing /\ ~isBlown)
    /\ (now >= blowAt[1] + BlowDelayMs /\ ~TimerDue) => isBlown

\* C2 (as claimed): after a reset that hit the Blowing state, the state does
\* not become Blown unless a new blow event is issued.
C2_ResetCancelsPendingTimer == resetMidBlow => ~isBlown

\* C3 (as claimed): whenever isBlown changes from false to true, the state
\* immediately before was Blowing (isBlowing true).
C3_BlownOnlyThroughBlowing == [][(~isBlown /\ isBlown') => isBlowing]_vars

\* C4 (as claimed): a blow event received while the state is Blowing or Blown
\* changes no state and schedules no additional timer.
C4_BlowWhileBlowingIsNoOp ==
  [][(handleBlow /\ (isBlowing \/ isBlown)) => UNCHANGED appVars]_vars

\* C5: a reset from any state yields Idle: isBlown, isBlowing and hasWished
\* are false, the list of wishes is empty, no SingleWish and no confetti
\* simulator is mounted.
C5_ResetYieldsIdle ==
  [][handleReset => (Idle' /\ wishes' = << >> /\ single' = NoWishes /\ ~ConfettiMounted')]_vars

\* C5 witness: a wish existed and the reset came out of a state with isBlown
\* or isBlowing set (a timer was scheduled), leaving Idle with no wishes.
C5_Witness ==
  /\ Idle /\ wishes = << >> /\ wishIdCounter > 0
  /\ blowAt = << >> /\ (resetMidBlow \/ now >= BlowDelayMs)

\* ===================================================== wish projectile claims
\* C6: the impact callback fires at most once per wish, and exactly once for a
\* wish that has left the flight phase (exploded, expanding or finished).
C6_ImpactExactlyOnce ==
  \A i \in DOMAIN impacts :
    /\ impacts[i] <= 1
    /\ i \in DOMAIN single =>
         /\ single[i].exploded <=> (impacts[i] = 1)
         /\ (single[i].finished \/ single[i].scale > FP) => (impacts[i] = 1)

\* C6 witness: a wish has impacted once, has run through all its expansion
\* frames and is finished.
C6_Witness ==
  \E i \in DOMAIN single :
    impacts[i] = 1 /\ single[i].finished /\ single[i].scale > 5 * FP

\* Number of ScnDt-millisecond frames after which the stored progress is >= 1.
FlightFrames(dt) == (FP + dt * 8 - 1) \div (dt * 8)

\* C7 (as claimed): one second of ScnDt-millisecond frames after wish and blow,
\* the state is Blown, exactly one impact has been recorded and boost has been
\* spiked and has decreased since.
C7_ScenarioImpactWithinOneSecond ==
  (now >= BlowDelayMs /\ now < BlowDelayMs + ScnDt /\ ~TimerDue) =>
    /\ isBlown
    /\ 0 \in DOMAIN impacts /\ impacts[0] = 1
    /\ 0 <= boostRef /\ boostRef < BoostSpike

\* C7 (amended): the state is Blown once one second has passed and not before;
\* the wish is then still in flight, with no impact recorded and boost at 0; the
\* single impact is recorded in the frame after the stored progress reaches 1
\* (t = 1.28 s), which spikes boost to 2.5, and boost then decreases toward 0.
C7_ScenarioImpactAfterFlight ==
  LET impactAt == (FlightFrames(ScnDt) + 1) * ScnDt
  IN  /\ (now >= BlowDelayMs /\ ~TimerDue) => isBlown
      /\ now < BlowDelayMs => ~isBlown
      /\ impactAt > BlowDelayMs + ScnDt
      /\ 0 \in DOMAIN single =>
           /\ now < impactAt => (impacts[0] = 0 /\ boostRef = 0 /\ single[0].progress = now * 8)
           /\ now >= impactAt => (impacts[0] = 1 /\ 0 <= boostRef /\ boostRef <= BoostSpike)
           /\ now > impactAt => boostRef < BoostSpike

\* C7 witness: past the impact frame, Blown, one impact, boost on its way down.
C7_Witness ==
  /\ isBlown /\ 0 \in DOMAIN impacts /\ impacts[0] = 1
  /\ now > (FlightFrames(ScnDt) + 1) * ScnDt
  /\ 0 < boostRef /\ boostRef < BoostSpike

\* C8 (as claimed): the frame whose update brings the progress to 1 or beyond
\* invokes the impact callback.
C8_ImpactInArrivalFrame ==
  [][\A i \in DOMAIN single \cap DOMAIN single' :
       (single[i].progress < FP /\ single'[i].progress >= FP)
         => impacts'[i] = impacts[i] + 1]_vars

\* C8 (amended): a flight frame, the arrival frame included, invokes no impact;
\* the next frame of a mounted wish whose progress has reached 1 invokes it.
C8_ImpactOneFrameAfterArrival ==
  [][\A i \in DOMAIN single \cap DOMAIN single' :
       now' > now =>
         /\ single[i].progress < FP =>
              (impacts'[i] = impacts[i] /\ ~single'[i].exploded)
         /\ (single[i].progress >= FP /\ ~single[i].exploded) =>
              (impacts'[i] = impacts[i] + 1 /\ single'[i].exploded)]_vars

\* C8 witness: a wish right after its impact frame.
C8_Witness ==
  \E i \in DOMAIN single :
    single[i].exploded /\ impacts[i] = 1 /\ single[i].scale = FP /\ single[i].progress >= FP

\* ========================================================= intensity claims
Between(a, x, b) == (a <= x /\ x <= b) \/ (b <= x /\ x <= a)

\* C9 (as claimed): every frame leaves blownAmount and blowingAmount within
\* [0,1] and between their previous value and their current target.
C9_FlameIntensitiesNeverOvershoot ==
  [][now' > now =>
       /\ 0 <= blownUniform' /\ blownUniform' <= FP
       /\ 0 <= blowingUniform' /\ blowingUniform' <= FP
       /\ Between(blownUniform, blownUniform', IF isBlown THEN FP ELSE 0)
       /\ Between(blowingUniform, blowingUniform', IF isBlowing THEN FP ELSE 0)]_vars

\* C10 (as claimed): in a frame without an impact boostAmount does not
\* increase and does not become negative.
C10_BoostDecaysToZero ==
  [][(now' > now /\ impacts' = impacts) =>
       (0 <= boostRef' /\ boostRef' <= boostRef)]_vars

\* ============================================================ gesture claims
\* Tolerance of the convergence claim (0.05) and a number of frames after which
\* a distance of at most 2 has shrunk below it at 15 % per frame.
Eps == 500
ConvergeFrames == 25

\* C11 (as claimed): while the target is held at a value in [-1,1], no
\* processed frame moves the emitted signal past the target, and once the
\* target has been held for ConvergeFrames processed frames the emitted
\* signal is within Eps of it, whatever the signal was before.
C11_SmoothingConverges ==
  (held.n > 0 /\ ~held.target.nan /\ ~currentFactor.nan /\ ~lastCall.before.nan) =>
    /\ lastCall.did = "processed" =>
         Between(lastCall.before.v, currentFactor.v, held.target.v)
    /\ held.n >= ConvergeFrames => Abs(currentFactor.v - held.target.v) <= Eps

\* C12 (as claimed): every value passed to onGestureChange is a number s with
\* s = 0 or 0.1 <= |s| <= 1; a smoothed value below 0.1 in magnitude is
\* emitted as exactly 0.
C12_EmittedSignalInRange ==
  \A i \in 1..Len(emitted) :
    /\ ~emitted[i].nan
    /\ emitted[i].v = 0 \/ (deadzone <= Abs(emitted[i].v) /\ Abs(emitted[i].v) <= FP)

\* C13: the target of a processed well-formed sample is 0 when no hand is
\* detected; otherwise, with r = avgTipDist / scaleRef (scaleRef replaced by 1
\* when it is 0), the target is -1 for r <= 1.3, +1 for r >= 2.2 and the
\* linear interpolation (r - 1.3) / 0.9 * 2 - 1 in between, and no well-formed
\* hand with a smaller ratio has a larger target.
C13_TargetFromRatio ==
  (lastCall.did = "processed" /\ lastCall.res \in WellFormed) =>
    IF lastCall.res = NoHand THEN lastCall.target = Num(0)
    ELSE LET lm == lastCall.res[1]
             ref == scaleRef(lm).v
             r == (avgTipDist(lm).v * FP) \div (IF ref = 0 THEN CoordFP ELSE ref)
             t == lastCall.target
         IN  /\ ~t.nan /\ -FP <= t.v /\ t.v <= FP
             /\ r <= 13000 => t.v = -FP
             /\ r >= 22000 => t.v = FP
             /\ (13000 < r /\ r < 22000) =>
                  Abs(9 * t.v - (2 * (r - 13000) * 10 - 9 * FP)) < 9
             /\ \A other \in WellFormed \ {NoHand} :
                  ratio(other[1]).v <= r => targetFactor(other).v <= t.v

\* C13 witness: three frames have been processed, the last one a hand of
\* ratio 2.0, whose target 0.5555 lies strictly between -1 and 1.
C13_Witness ==
  /\ lastCall.did = "processed" /\ lastCall.res = MostlyOpen
  /\ lastCall.target = Num(5555)
  /\ detections = 3

\* C14 (as claimed): a frame whose sample is malformed (fewer than 21 points
\* or a NaN coordinate) is processed with target 0 and without an exception,
\* and the signal is a number in [-1,1] in that frame and ever after.
C14_MalformedTreatedAsNoHand ==
  /\ (lastCall.did \in {"processed", "threw"} /\ lastCall.res \in Malformed) =>
       (lastCall.did = "processed" /\ lastCall.target = Num(0))
  /\ ~currentFactor.nan /\ Abs(currentFactor.v) <= FP

\* C15 (as claimed): once the effect cleanup has run, whatever setupMediaPipe
\* and startCamera were waiting for, there is no further detectForVideo call,
\* no further onGestureChange call and no predictWebcam callback is pending.
C15_NothingAfterTeardown ==
  late # << >> =>
    /\ detections = late[1]
    /\ Len(emitted) = late[2]
    /\ ~requestRef

\* C16: a predictWebcam call that finds video.currentTime equal to the time
\* last processed calls no detection, leaves the smoothed signal unchanged and
\* emits nothing; no more detections are made than camera frames were shown.
C16_StaleFrameSkipped ==
  [][/\ ((GestureLoaded \/ GestureFrame) /\ videoTime = lastVideoTime) =>
          /\ detections' = detections
          /\ currentFactor' = currentFactor
          /\ emitted' = emitted
     /\ detections' <= videoTime' + 1]_vars

\* C16 witness: after two processed frames the latest call found no new
\* camera frame and skipped.
C16_Witness ==
  /\ lastCall.did = "skipped"
  /\ videoTime = lastVideoTime
  /\ detections = 2 /\ Len(emitted) = 2 /\ currentFactor # Num(0)

C18_ConfettiExactlyWhileBlown ==
  [][/\ ConfettiMounted <=> Blown
     /\ ConfettiMounted' <=> Blown'
     /\ (~Blown /\ Blown') => (~ConfettiMounted /\ ConfettiMounted')
     /\ handleReset => ~ConfettiMounted'
     /\ (Idle' \/ Wishing' \/ Blowing') => ~ConfettiMounted']_vars

\* C18 witness: the timer of an accepted blow has fired; the state is Blown
\* and the confetti simulator is mounted.
C18_Witness ==
  /\ Blown /\ ConfettiMounted /\ isBlowing
  /\ blowAt # << >> /\ now >= blowAt[1] + BlowDelayMs

\* C19 (as claimed): the stored progress of every mounted projectile stays
\* within [0,1] and never decreases.
C19_StoredProgressWithinUnit ==
  [][\A i \in DOMAIN single \cap DOMAIN single' :
       /\ 0 <= single'[i].progress /\ single'[i].progress <= FP
       /\ single'[i].progress >= single[i].progress]_vars

\* C19 (amended): a frame of a projectile whose stored progress is below 1
\* adds dt * 0.8 to it without clamping, every other step leaves it as it is;
\* the stored progress is therefore non-decreasing and at least 0 but may end
\* above 1 (by less than one frame's advance), and only the value the flight
\* path is computed from, min(progress, 1), stays within [0,1].
C19_StoredProgressUnclamped ==
  [][\A i \in DOMAIN single \cap DOMAIN single' :
       /\ (now' > now /\ single[i].progress < FP) =>
            single'[i].progress = single[i].progress + (now' - now) * 8
       /\ (now' = now \/ single[i].progress >= FP) =>
            single'[i].progress = single[i].progress
       /\ 0 <= single[i].progress /\ single'[i].progress >= single[i].progress
       /\ single'[i].progress < FP + (now' - now) * 8 \/ single'[i].progress = single[i].progress
       /\ 0 <= Min(single'[i].progress, FP) /\ Min(single'[i].progress, FP) <= FP]_vars

\* C19 witness: a projectile whose flight has ended with a stored progress
\* above 1.
C19_Witness ==
  \E i \in DOMAIN single : single[i].progress > FP /\ single[i].exploded

\* The ids of the wishes in the App's list.
WishIds == {wishes[k].id : k \in 1..Len(wishes)}

\* C20 (as claimed): every frame of an exploded projectile multiplies its
\* scale by 1.1, the frame that takes the scale above 5 makes it Finished, a
\* Finished projectile changes no more, and no wish in the list of wishes has
\* a Finished projectile.
C20_FinishedWishRemoved ==
  [][/\ \A i \in DOMAIN single \cap DOMAIN single' :
          /\ (now' > now /\ single[i].exploded /\ ~single[i].finished) =>
               /\ single'[i].scale = (single[i].scale * 11) \div 10
               /\ single'[i].finished <=> single'[i].scale > 5 * FP
          /\ single[i].finished => single'[i] = single[i]
     /\ \A i \in WishIds' : i \in DOMAIN single' => ~single'[i].finished]_vars

\* C20 (amended): every frame of an exploded projectile multiplies its scale
\* by 1.1, the frame that takes the scale above 5 makes it Finished, and a
\* Finished projectile changes no more; its wish stays in the list of wishes
\* and its SingleWish stays mounted until a reset empties the list.
C20_FinishedWishStaysListed ==
  [][/\ \A i \in DOMAIN single \cap DOMAIN single' :
          /\ (now' > now /\ single[i].exploded /\ ~single[i].finished) =>
               /\ single'[i].scale = (single[i].scale * 11) \div 10
               /\ single'[i].finished <=> single'[i].scale > 5 * FP
          /\ single[i].finished => single'[i] = single[i]
     /\ DOMAIN single' = WishIds'
     /\ \A i \in DOMAIN single :
          (single[i].finished /\ wishes' # << >>) =>
            (i \in WishIds' /\ i \in DOMAIN single' /\ single'[i].finished)]_vars

\* C20 witness: a projectile has finished with a scale above 5 and its wish is
\* still in the list, next to a later wish.
C20_Witness ==
  \E i \in DOMAIN single :
    /\ single[i].finished /\ single[i].scale > 5 * FP
    /\ i \in WishIds /\ Len(wishes) = 2 /\ wishes[1].id = i

\* ------------------------------------------------------- confetti claims
\* A useFrame pass of one mounted simulator has run in this step.
ConfettiStepped ==
  /\ confetti # << >>
  /\ confetti' # << >>
  /\ (simTime' # simTime \/ offBeat' # offBeat \/ rate' # rate)

\* The vertical velocity, in units of 1/FP, that a step of dt ms leaves
\* unchanged: 0.96 * (v - 15 dt) = v at v = -360 dt.
TerminalVy(dt) == -3600 * dt

\* Rounding slack of the fixed-point velocities (units of 1/FP).
VySlack == 25

\* C21 as stated: in every confetti step, every particle's vertical velocity
\* after the step is less than or equal to its vertical velocity before it.
C21_VyNeverIncreases ==
  [][ConfettiStepped =>
       \A k \in DOMAIN confetti : confetti'[k].vel[2] <= confetti[k].vel[2]]_vars

\* C21 amended: a confetti step of clamped length dt moves the vertical
\* velocity toward -360 * dt and never across it: a particle at or above
\* that velocity does not speed up upward (vy' <= vy), a particle falling
\* faster than that is slowed down by the drag (vy' > vy, vy' <= -360 * dt).
C21_VyMovesTowardTerminal ==
  [][ConfettiStepped =>
       \A k \in DOMAIN confetti :
         /\ confetti[k].vel[2] >= TerminalVy(simTime' - simTime) + VySlack
              => confetti'[k].vel[2] <= confetti[k].vel[2]
         /\ confetti[k].vel[2] <= TerminalVy(simTime' - simTime) - VySlack
              => /\ confetti'[k].vel[2] > confetti[k].vel[2]
                 /\ confetti'[k].vel[2] <= TerminalVy(simTime' - simTime)]_vars

\* A simulator that has stepped at 60 Hz holds a particle falling faster than
\* the terminal velocity of that rate and one that is still rising.
C21_Witness ==
  /\ confetti # << >>
  /\ rate = << 16 >>
  /\ simTime > 0
  /\ \E k \in DOMAIN confetti : confetti[k].vel[2] < TerminalVy(16) - VySlack
  /\ \E k \in DOMAIN confetti : confetti[k].vel[2] > 0

\* The particle's vertical position is below the cull threshold.
BelowCull(p) == p.pos[2] < -20 * FP

\* Simulated time (ms) by which the whole pool is below the threshold when
\* every frame has the given delta.
CullBy == [d \in ConfettiRates |->
             CASE d = 8 -> 9400
               [] d = 16 -> 5720
               [] d = 33 -> 4130
               [] d = 100 -> 3600]

\* C22 as stated: once more than 5 seconds have been simulated, every
\* particle is below the cull threshold.
C22_AllCulledAfterFiveSeconds ==
  (confetti # << >> /\ simTime > 5000) =>
    \A k \in DOMAIN confetti : BelowCull(confetti[k])

\* C22 amended: the simulated time after which every particle is below the
\* cull threshold depends on the frame delta: 3.6 s at 100 ms frames, 4.13 s
\* at 33 ms, 5.72 s at 16 ms and 9.4 s at 8 ms.
C22_AllCulledByRateDependentTime ==
  (confetti # << >> /\ rate # << >> /\ simTime >= CullBy[rate[1]]) =>
    \A k \in DOMAIN confetti : BelowCull(confetti[k])

\* A simulator stepped at 60 Hz has passed the time by which its pool is all
\* below the threshold.
C22_Witness ==
  /\ confetti # << >>
  /\ rate = << 16 >>
  /\ simTime >= CullBy[16]
  /\ \A k \in DOMAIN confetti : BelowCull(confetti[k])

\* |x|
Magnitude(x) == IF x >= 0 THEN x ELSE -x

\* C23: the step of a frame of delta ms is the step of min(delta, 100) ms:
\* however long the frame stalled, gravity takes at most 1.5 units/s off vy,
\* and no coordinate or angle moves by more than 0.1 s worth of its velocity
\* or rotation speed.
C23_StepUsesClampedDelta ==
  [][ConfettiStepped =>
       /\ simTime' - simTime = Min(now' - now, 100)
       /\ \A k \in DOMAIN confetti :
            /\ confetti'[k] = StepParticle(confetti[k], Min(now' - now, 100))
            /\ confetti'[k].vel[2] >= MulDiv(confetti[k].vel[2] - 15000, 96, 100)
            /\ \A c \in 1..3 :
                 /\ Magnitude(confetti'[k].pos[c] - confetti[k].pos[c]) * 10
                      <= Magnitude(confetti'[k].vel[c])
                 /\ Magnitude(confetti'[k].rot[c] - confetti[k].rot[c]) * 10
                      <= Magnitude(confetti[k].rotSpeed[c])]_vars

\* A frame that stalled for seconds has been stepped: the page clock is at
\* least three seconds past the mount while 0.2 s or less were simulated.
C23_Witness ==
  /\ confetti # << >>
  /\ offBeat = 1
  /\ simTime > 0
  /\ simTime <= 200
  /\ now >= BlowDelayMs + 3000

C30_CullingPermanent ==
  [][ConfettiStepped =>
       \A k \in DOMAIN confetti :
         BelowCull(confetti[k]) =>
           /\ BelowCull(confetti'[k])
           /\ InstanceScale(confetti'[k]) = 0
           /\ confetti'[k].pos[2] <= confetti[k].pos[2]]_vars

\* A particle was culled and stepped further, one of the frames having
\* stalled for three seconds, while another particle is still visible.
C30_Witness ==
  /\ confetti # << >>
  /\ offBeat = 1
  /\ now >= BlowDelayMs + simTime + 2900
  /\ \E k \in DOMAIN confetti : confetti[k].pos[2] < -25 * FP
  /\ \E k \in DOMAIN confetti : ~BelowCull(confetti[k])

\* ---------------------------------------------------------- easing claim
\* C25: ease(0) = 0, ease(1) = 1, and ease is non-decreasing on [0, 1]: the
\* value computed for t is within [0, 1] and at least the value of every
\* smaller grid point and at most the value of every larger one.
C25_EaseEndpointsAndMonotone ==
  easeOut # << >> =>
    /\ easeT = 0 => easeOut[1] = 0
    /\ easeT = EaseFP => easeOut[1] = EaseFP
    /\ 0 <= easeOut[1] /\ easeOut[1] <= EaseFP
    /\ \A u \in EaseInputs :
         /\ u <= easeT => ease(u) <= easeOut[1]
         /\ u >= easeT => ease(u) >= easeOut[1]

\* The easing has been computed at the junction of its two branches.
C25_Witness ==
  /\ easeOut # << >>
  /\ 2 * easeT >= EaseFP
  /\ 2 * easeT < EaseFP + 2 * (EaseFP \div EaseGrid) + 2
  /\ 2 * easeOut[1] >= EaseFP

\* ------------------------------------------------------- wish-form claims
\* The text is empty or consists of spaces only.
IsBlank(s) == \A k \in 1..Len(s) : s[k] = " "

\* C26: a submission whose text is empty or only whitespace adds no wish,
\* mounts no projectile, hands out no wish id and leaves hasWished, isBlowing
\* and isBlown as they were.
C26_BlankWishRejected ==
  [][(IsBlank(inputValue) /\ handleSendWish) =>
       UNCHANGED << wishes, single, impacts, wishIdCounter, hasWished, isBlowing, isBlown,
                    timers >>]_vars

\* A text of spaces only is in the input box (where a submission is rejected)
\* while a wish made earlier is listed.
C26_Witness ==
  /\ inputValue # << >>
  /\ IsBlank(inputValue)
  /\ wishIdCounter = 1
  /\ Len(wishes) = 1
  /\ DOMAIN single = {0}

\* C27: the impact callback never runs for a wish that is no longer listed:
\* the impact count of a wish cleared by reset stays what it was, only
\* projectiles of listed wishes are mounted, and the boost is set to its
\* spike value only in a frame in which a listed wish impacts.
C27_NoImpactAfterReset ==
  [][/\ \A i \in DOMAIN impacts : i \notin WishIds => impacts'[i] = impacts[i]
     /\ DOMAIN single' \subseteq {wishes'[k].id : k \in 1..Len(wishes')}
     /\ (boostRef' = BoostSpike /\ boostRef # BoostSpike)
          => \E i \in WishIds : impacts'[i] = impacts[i] + 1]_vars

\* The first wish was cleared by reset before its impact and never impacted,
\* while the wish made after the reset has impacted.
C27_Witness ==
  /\ DOMAIN impacts = {0, 1}
  /\ WishIds = {1}
  /\ impacts[0] = 0
  /\ impacts[1] = 1

\* C29: hasWished holds exactly when the list of wishes is non-empty; the
\* listed ids are strictly increasing, the newest listed wish holds the last
\* id handed out, and the ids handed out so far, listed or cleared by a
\* reset, are exactly 0 .. wishIdCounter - 1, each handed out once.
C29_WishedIffListedIdsIncreasing ==
  /\ hasWished <=> wishes # << >>
  /\ \A k \in 1..(Len(wishes) - 1) : wishes[k].id < wishes[k + 1].id
  /\ wishes # << >> => wishes[Len(wishes)].id = wishIdCounter - 1
  /\ WishIds \subseteq DOMAIN impacts
  /\ DOMAIN impacts = 0..(wishIdCounter - 1)

\* After a reset cleared the first wish, a second wish is listed alone under
\* the next id.
C29_Witness ==
  /\ hasWished
  /\ Len(wishes) = 1
  /\ wishes[1].id = 1
  /\ wishIdCounter = 2
  /\ DOMAIN impacts = {0, 1}

\* ------------------------------------------------------ rendered-page claim
\* C28: when the handlers are called only through the controls the page
\* shows, every state satisfies isBlown => isBlowing and isBlowing =>
\* hasWished, and so does the state the timer callback produces.
C28_PhasesNestedUnderUI ==
  /\ isBlown => isBlowing
  /\ isBlowing => hasWished

\* The timer has fired after a click on Blow: the candle is blown, still
\* blowing, and no timer is pending.
C28_Witness ==
  /\ isBlown
  /\ isBlowing
  /\ hasWished
  /\ timers = << >>
  /\ now >= BlowDelayMs
====
